---- MODULE Spec2Model ----
(***************************************************************************)
(* Model of pkg/bootstrap/docker/openshift/admin.go: the add-on installer  *)
(* (Helper.InstallRegistry, Helper.InstallRouter) and its file helper      *)
(* catFiles.                                                               *)
(*                                                                         *)
(* Two installer processes run against one cluster and one master config   *)
(* directory.  Every call the code makes on the cluster client, on the     *)
(* certificate utility, on the filesystem helper or on a delegate command  *)
(* is one step of the calling process, so that the calls of concurrent     *)
(* invocations interleave.  The callees that live outside admin.go (the    *)
(* cluster API, the certificate utility, the delegates, the OS) are        *)
(* modelled by their outcomes, chosen by the environment.                  *)
(***************************************************************************)
EXTENDS Integers, Sequences, FiniteSets, TLC

\* ------------------------------------------------------------------ bounds

\* Number of installer invocations each process may start.
MaxRuns == 2

\* Number of source files a stand-alone catFiles call may be given.
MaxSrc == 3

Procs == {1, 2}

\* ------------------------------------------------------------------ values

\* Go error values: the message and the message of the wrapped cause.
NoErr == [msg |-> "nil", cause |-> "nil"]
Pending == [msg |-> "pending", cause |-> "nil"]
ErrNotFound == [msg |-> "NotFound", cause |-> "nil"]
ErrServer == [msg |-> "ServerError", cause |-> "nil"]
ErrAlreadyExists == [msg |-> "AlreadyExists", cause |-> "nil"]
ErrRegistryCmd == [msg |-> "registry command failed", cause |-> "nil"]
ErrRouterCmd == [msg |-> "router command failed", cause |-> "nil"]
ErrCertUtil == [msg |-> "cert utility failed", cause |-> "nil"]
ErrCreate == [msg |-> "create failed", cause |-> "nil"]
ErrOpen == [msg |-> "open failed", cause |-> "nil"]
ErrCopy == [msg |-> "copy failed", cause |-> "nil"]

\* errors.NewError(msg).WithCause(err)
NewErrorWithCause(m, e) == [msg |-> m, cause |-> e.msg]

\* apierrors.IsNotFound(err)
IsNotFound(e) == e.msg = "NotFound"

\* serviceaccount.MakeUsername("default", "router")
RouterUser == "system:serviceaccount:default:router"

\* The authorized-identity lists the privileged policy may hold at the start.
InitialUsers == {<<>>, <<"A">>, <<"A", "B">>, <<"A", RouterUser>>}

Range(s) == {s[i] : i \in 1..Len(s)}

Count(u, s) == Cardinality({i \in 1..Len(s) : s[i] = u})

\* ------------------------------------------------------------------ files

RouterCrt == "router.crt"
RouterKey == "router.key"
CaCrt == "ca.crt"
RouterPem == "router.pem"

Sources == {RouterCrt, RouterKey, CaCrt}
Files == Sources \cup {RouterPem}

Absent == [exists |-> FALSE, data |-> <<>>]
File(d) == [exists |-> TRUE, data |-> d]

CrtBytes == <<10, 11>>
KeyBytes == <<20, 21>>
CaBytes == <<30>>

\* What the environment decides for one catFiles call: whether os.Create fails,
\* which os.Open (0: none) fails although the file is there, which io.Copy
\* (0: none) fails, and how many bytes that failing copy wrote before failing.
CatEnvs == [createFail : BOOLEAN, openFail : 0..MaxSrc, copyFail : 0..MaxSrc, copyN : 0..1]

Min(a, b) == IF a < b THEN a ELSE b

\* os.Open(f)
OsOpen(files, f, fail) == IF ~files[f].exists \/ fail THEN ErrOpen ELSE NoErr

\* The loop of catFiles from source i on; err is the function's variable err.
RECURSIVE CatLoop(_, _, _, _, _, _)
CatLoop(files, dest, src, i, err, env) ==
  IF i > Len(src) THEN [fs |-> files, err |-> NoErr]
  ELSE LET oerr == OsOpen(files, src[i], env.openFail = i)
       IN IF oerr # NoErr THEN [fs |-> files, err |-> err]
          ELSE LET data == files[src[i]].data
                   failed == env.copyFail = i
                   n == IF failed THEN Min(env.copyN, Len(data)) ELSE Len(data)
                   cerr == IF failed THEN ErrCopy ELSE NoErr
                   files2 == [files EXCEPT ![dest].data = @ \o SubSeq(data, 1, n)]
               IN IF cerr # NoErr THEN [fs |-> files2, err |-> cerr]
                  ELSE CatLoop(files2, dest, src, i + 1, cerr, env)

\* catFiles(dest, src...): the files afterwards and the error returned.
catFiles(files, dest, src, env) ==
  IF env.createFail THEN [fs |-> files, err |-> ErrCreate]
  ELSE CatLoop([files EXCEPT ![dest] = File(<<>>)], dest, src, 1, NoErr, env)

\* The first I/O failure a catFiles call meets (NoErr: none), from source i on.
RECURSIVE FirstIOFailureFrom(_, _, _, _)
FirstIOFailureFrom(files, src, i, env) ==
  IF i > Len(src) THEN NoErr
  ELSE IF OsOpen(files, src[i], env.openFail = i) # NoErr THEN ErrOpen
  ELSE IF env.copyFail = i THEN ErrCopy
  ELSE FirstIOFailureFrom(files, src, i + 1, env)

FirstIOFailure(files, src, env) ==
  IF env.createFail THEN ErrCreate ELSE FirstIOFailureFrom(files, src, 1, env)

\* ------------------------------------------------------------------ state

VARIABLES
  registrySvc,    \* the service "docker-registry" exists in namespace default
  routerSvc,      \* the service "router" exists in namespace default
  routerSA,       \* the service account "router" exists in namespace default
  sccUsers,       \* Users of the SecurityContextConstraints "privileged"
  fs,             \* the files of the master config directory
  pc,             \* where each process stands in its invocation
  op,             \* the operation each process last invoked
  probe,          \* the error of the invocation's Services("default").Get
  result,         \* the error the invocation returned
  privilegedSCC,  \* the invocation's local privilegedSCC.Users
  calls,          \* the calls the invocation has made so far
  ioErr,          \* the first I/O failure its catFiles call met
  runs,           \* invocations each process has started
  cat             \* the stand-alone catFiles call (specification SpecCat)

cluster == <<registrySvc, routerSvc, routerSA, sccUsers>>
local == <<pc, op, probe, result, privilegedSCC, calls, ioErr, runs>>
vars == <<registrySvc, routerSvc, routerSA, sccUsers, fs, pc, op, probe,
          result, privilegedSCC, calls, ioErr, runs, cat>>

NoCalls == [sa |-> 0, get |-> 0, update |-> 0, cert |-> 0, cat |-> 0, delegate |-> 0]

NoCat == [called |-> FALSE, src |-> <<>>, env |-> [createFail |-> FALSE,
          openFail |-> 0, copyFail |-> 0, copyN |-> 0], pre |-> [f \in Files |-> Absent],
          err |-> NoErr]

Init ==
  /\ registrySvc \in BOOLEAN
  /\ routerSvc \in BOOLEAN
  /\ routerSA \in BOOLEAN
  /\ sccUsers \in InitialUsers
  /\ fs = [f \in Files |-> IF f = CaCrt THEN File(CaBytes) ELSE Absent]
  /\ pc = [p \in Procs |-> "idle"]
  /\ op = [p \in Procs |-> "none"]
  /\ probe = [p \in Procs |-> Pending]
  /\ result = [p \in Procs |-> NoErr]
  /\ privilegedSCC = [p \in Procs |-> <<>>]
  /\ calls = [p \in Procs |-> NoCalls]
  /\ ioErr = [p \in Procs |-> NoErr]
  /\ runs = [p \in Procs |-> 0]
  /\ cat = NoCat

\* ------------------------------------------------------------------ callees

\* kubeClient.Services("default").Get(name)
ServicesGet(exists, fail) ==
  IF fail THEN ErrServer ELSE IF exists THEN NoErr ELSE ErrNotFound

\* kubeClient.ServiceAccounts("default").Create(routerSA)
ServiceAccountsCreate(exists, fail) ==
  IF fail THEN ErrServer ELSE IF exists THEN ErrAlreadyExists ELSE NoErr

\* A grant that replaces the list instead of extending it.
AppendUserReplacing(users, u) == <<u>>

\* privilegedSCC.Users = append(privilegedSCC.Users, MakeUsername(...))
AppendUser(users, u) == Append(users, u)

\* ------------------------------------------------------------------ control

\* Where an invocation goes next, and what it returns when that is "done".
Goto(l) == [pc |-> l, result |-> NoErr]
Return(e) == [pc |-> "done", result |-> e]

\* An InstallRegistry that takes every probe error for not-found.
RegistryAfterProbeAnyError(err) ==
  IF err = NoErr THEN Return(NoErr) ELSE Goto("regDelegate")

\* InstallRegistry after the probe
RegistryAfterProbe(err) ==
  IF err = NoErr THEN Return(NoErr)
  ELSE IF ~IsNotFound(err)
       THEN Return(NewErrorWithCause("error retrieving docker registry service", err))
       ELSE Goto("regDelegate")

\* An InstallRouter that installs whatever the probe found.
RouterAfterProbeAlways(err) == Goto("rtrCreateSA")

\* InstallRouter after the probe
RouterAfterProbe(err) ==
  IF err = NoErr THEN Return(NoErr) ELSE Goto("rtrCreateSA")

\* An InstallRouter that tolerates an existing service account.
RouterAfterCreateSATolerant(err) ==
  IF err # NoErr /\ err # ErrAlreadyExists
  THEN Return(NewErrorWithCause("cannot create router service account", err))
  ELSE Goto("rtrGetSCC")

\* An InstallRouter that goes on whatever ServiceAccounts.Create returned.
RouterAfterCreateSAIgnored(err) == Goto("rtrGetSCC")

\* InstallRouter after ServiceAccounts.Create
RouterAfterCreateSA(err) ==
  IF err # NoErr
  THEN Return(NewErrorWithCause("cannot create router service account", err))
  ELSE Goto("rtrGetSCC")

\* InstallRouter after SecurityContextConstraints.Get
RouterAfterGetSCC(err) ==
  IF err # NoErr
  THEN Return(NewErrorWithCause("cannot retrieve privileged SCC", err))
  ELSE Goto("rtrUpdateSCC")

\* An InstallRouter that skips the certificate generation.
RouterAfterUpdateSCCNoCert(err) ==
  IF err # NoErr
  THEN Return(NewErrorWithCause("cannot update privileged SCC", err))
  ELSE Goto("rtrCatFiles")

\* InstallRouter after SecurityContextConstraints.Update
RouterAfterUpdateSCC(err) ==
  IF err # NoErr
  THEN Return(NewErrorWithCause("cannot update privileged SCC", err))
  ELSE Goto("rtrCreateCert")

\* InstallRouter after CreateServerCert
RouterAfterCreateCert(err) ==
  IF err # NoErr
  THEN Return(NewErrorWithCause("cannot create router cert", err))
  ELSE Goto("rtrCatFiles")

\* InstallRouter after catFiles
RouterAfterCatFiles(err) ==
  IF err # NoErr THEN Return(err) ELSE Goto("rtrDelegate")

Step(p, next) ==
  /\ pc' = [pc EXCEPT ![p] = next.pc]
  /\ result' = [result EXCEPT ![p] = next.result]

Called(p, c) == calls' = [calls EXCEPT ![p] = c]

\* ------------------------------------------------------------------ actions

\* A process calls h.InstallRegistry or h.InstallRouter.
Invoke(p) ==
  /\ pc[p] \in {"idle", "done"}
  /\ runs[p] < MaxRuns
  /\ \E o \in {"registry", "router"} :
       /\ op' = [op EXCEPT ![p] = o]
       /\ pc' = [pc EXCEPT ![p] = IF o = "registry" THEN "regProbe" ELSE "rtrProbe"]
  /\ runs' = [runs EXCEPT ![p] = @ + 1]
  /\ probe' = [probe EXCEPT ![p] = Pending]
  /\ result' = [result EXCEPT ![p] = NoErr]
  /\ privilegedSCC' = [privilegedSCC EXCEPT ![p] = <<>>]
  /\ calls' = [calls EXCEPT ![p] = NoCalls]
  /\ ioErr' = [ioErr EXCEPT ![p] = NoErr]
  /\ UNCHANGED <<cluster, fs, cat>>

\* InstallRegistry: the existence probe and the branches on its error.
RegistryProbe(p) ==
  /\ pc[p] = "regProbe"
  /\ \E fail \in BOOLEAN :
       LET err == ServicesGet(registrySvc, fail)
       IN /\ probe' = [probe EXCEPT ![p] = err]
          /\ Step(p, RegistryAfterProbe(err))
  /\ UNCHANGED <<cluster, fs, op, privilegedSCC, calls, ioErr, runs, cat>>

\* InstallRegistry: registry.RunCmdRegistry, whose error is returned as it is.
RegistryDelegate(p) ==
  /\ pc[p] = "regDelegate"
  /\ \E err \in {NoErr, ErrRegistryCmd}, created \in BOOLEAN :
       /\ err = NoErr => created
       /\ registrySvc' = (registrySvc \/ created)
       /\ Step(p, Return(err))
  /\ Called(p, [calls[p] EXCEPT !.delegate = @ + 1])
  /\ UNCHANGED <<routerSvc, routerSA, sccUsers, fs, op, probe, privilegedSCC,
                 ioErr, runs, cat>>

\* InstallRouter: the existence probe and the branch on its error.
RouterProbe(p) ==
  /\ pc[p] = "rtrProbe"
  /\ \E fail \in BOOLEAN :
       LET err == ServicesGet(routerSvc, fail)
       IN /\ probe' = [probe EXCEPT ![p] = err]
          /\ Step(p, RouterAfterProbe(err))
  /\ UNCHANGED <<cluster, fs, op, privilegedSCC, calls, ioErr, runs, cat>>

\* InstallRouter: create the router service account.
RouterCreateSA(p) ==
  /\ pc[p] = "rtrCreateSA"
  /\ \E fail \in BOOLEAN :
       LET err == ServiceAccountsCreate(routerSA, fail)
       IN /\ routerSA' = (routerSA \/ err = NoErr)
          /\ Step(p, RouterAfterCreateSA(err))
  /\ Called(p, [calls[p] EXCEPT !.sa = @ + 1])
  /\ UNCHANGED <<registrySvc, routerSvc, sccUsers, fs, op, probe, privilegedSCC,
                 ioErr, runs, cat>>

\* InstallRouter: read the privileged SCC.
RouterGetSCC(p) ==
  /\ pc[p] = "rtrGetSCC"
  /\ \E err \in {NoErr, ErrServer} :
       /\ privilegedSCC' = [privilegedSCC EXCEPT ![p] = IF err = NoErr THEN sccUsers ELSE @]
       /\ Step(p, RouterAfterGetSCC(err))
  /\ Called(p, [calls[p] EXCEPT !.get = @ + 1])
  /\ UNCHANGED <<cluster, fs, op, probe, ioErr, runs, cat>>

\* InstallRouter: append the router identity to the local copy and write the
\* copy back; the write replaces whatever the cluster holds.
RouterUpdateSCC(p) ==
  /\ pc[p] = "rtrUpdateSCC"
  /\ LET users == AppendUser(privilegedSCC[p], RouterUser)
     IN /\ privilegedSCC' = [privilegedSCC EXCEPT ![p] = users]
        /\ \E err \in {NoErr, ErrServer} :
             /\ sccUsers' = IF err = NoErr THEN users ELSE sccUsers
             /\ Step(p, RouterAfterUpdateSCC(err))
  /\ Called(p, [calls[p] EXCEPT !.update = @ + 1])
  /\ UNCHANGED <<registrySvc, routerSvc, routerSA, fs, op, probe, ioErr, runs, cat>>

\* InstallRouter: createCertOptions.CreateServerCert(), with Overwrite set.
RouterCreateCert(p) ==
  /\ pc[p] = "rtrCreateCert"
  /\ \E err \in {NoErr, ErrCertUtil} :
       /\ fs' = IF err = NoErr
                THEN [fs EXCEPT ![RouterCrt] = File(CrtBytes), ![RouterKey] = File(KeyBytes)]
                ELSE fs
       /\ Step(p, RouterAfterCreateCert(err))
  /\ Called(p, [calls[p] EXCEPT !.cert = @ + 1])
  /\ UNCHANGED <<cluster, op, probe, privilegedSCC, ioErr, runs, cat>>

\* InstallRouter: catFiles(router.pem, router.crt, router.key, ca.crt).
RouterCatFiles(p) ==
  /\ pc[p] = "rtrCatFiles"
  /\ \E env \in CatEnvs :
       LET src == <<RouterCrt, RouterKey, CaCrt>>
           r == catFiles(fs, RouterPem, src, env)
       IN /\ fs' = r.fs
          /\ ioErr' = [ioErr EXCEPT ![p] = FirstIOFailure(fs, src, env)]
          /\ Step(p, RouterAfterCatFiles(r.err))
  /\ Called(p, [calls[p] EXCEPT !.cat = @ + 1])
  /\ UNCHANGED <<cluster, op, probe, privilegedSCC, runs, cat>>

\* InstallRouter: router.RunCmdRouter, whose error is returned as it is.
RouterDelegate(p) ==
  /\ pc[p] = "rtrDelegate"
  /\ \E err \in {NoErr, ErrRouterCmd}, created \in BOOLEAN :
       /\ err = NoErr => created
       /\ routerSvc' = (routerSvc \/ created)
       /\ Step(p, Return(err))
  /\ Called(p, [calls[p] EXCEPT !.delegate = @ + 1])
  /\ UNCHANGED <<registrySvc, routerSA, sccUsers, fs, op, probe, privilegedSCC,
                 ioErr, runs, cat>>

Next ==
  \E p \in Procs :
    \/ Invoke(p)
    \/ RegistryProbe(p)
    \/ RegistryDelegate(p)
    \/ RouterProbe(p)
    \/ RouterCreateSA(p)
    \/ RouterGetSCC(p)
    \/ RouterUpdateSCC(p)
    \/ RouterCreateCert(p)
    \/ RouterCatFiles(p)
    \/ RouterDelegate(p)

Spec == Init /\ [][Next]_vars

\* The steps of a started invocation of p.
Run(p) ==
  \/ RegistryProbe(p) \/ RegistryDelegate(p)
  \/ RouterProbe(p) \/ RouterCreateSA(p) \/ RouterGetSCC(p) \/ RouterUpdateSCC(p)
  \/ RouterCreateCert(p) \/ RouterCatFiles(p) \/ RouterDelegate(p)

\* Every started invocation runs to its return (the calls are synchronous and
\* blocking); nobody is obliged to start another one.
FairSpec == Spec /\ \A p \in Procs : WF_vars(Run(p))

\* ------------------------------------------------------------------ catFiles alone

\* The argument lists of a stand-alone call: up to MaxSrc source names.
SrcLists == UNION {[1..n -> Sources] : n \in 0..MaxSrc}

SourceBytes(f) == IF f = RouterCrt THEN CrtBytes ELSE IF f = RouterKey THEN KeyBytes ELSE CaBytes

InitCat ==
  /\ registrySvc = FALSE /\ routerSvc = FALSE /\ routerSA = FALSE
  /\ sccUsers = <<>>
  /\ fs \in {f \in [Files -> {Absent} \cup {File(d) : d \in {<<>>, <<99>>, CrtBytes, KeyBytes, CaBytes}}] :
               /\ \A n \in Sources : f[n] \in {Absent, File(<<>>), File(SourceBytes(n))}
               /\ f[RouterPem] \in {Absent, File(<<99>>)}}
  /\ pc = [p \in Procs |-> "idle"]
  /\ op = [p \in Procs |-> "none"]
  /\ probe = [p \in Procs |-> Pending]
  /\ result = [p \in Procs |-> NoErr]
  /\ privilegedSCC = [p \in Procs |-> <<>>]
  /\ calls = [p \in Procs |-> NoCalls]
  /\ ioErr = [p \in Procs |-> NoErr]
  /\ runs = [p \in Procs |-> 0]
  /\ cat = NoCat

\* catFiles(router.pem, src...) on the files as they are.
CatCall ==
  /\ ~cat.called
  /\ \E src \in SrcLists, env \in CatEnvs :
       LET r == catFiles(fs, RouterPem, src, env)
       IN /\ fs' = r.fs
          /\ cat' = [called |-> TRUE, src |-> src, env |-> env, pre |-> fs, err |-> r.err]
  /\ UNCHANGED <<cluster, local>>

NextCat == CatCall

SpecCat == InitCat /\ [][NextCat]_vars

\* ------------------------------------------------------------------ properties

RouterMid == {"rtrGetSCC", "rtrUpdateSCC", "rtrCreateCert", "rtrCatFiles", "rtrDelegate"}

ProbeFailed(p) == probe[p] \notin {Pending, NoErr, ErrNotFound}

\* The invocation of p wrote the privileged policy and the write succeeded.
Granted(p) ==
  /\ op[p] = "router"
  /\ calls[p].update = 1
  /\ \/ pc[p] \in {"rtrCreateCert", "rtrCatFiles", "rtrDelegate"}
     \/ pc[p] = "done" /\ calls[p].cert = 1

IsPrefix(s, t) == Len(s) <= Len(t) /\ s = SubSeq(t, 1, Len(s))

RECURSIVE ConcatFiles(_, _, _)
ConcatFiles(files, src, n) ==
  IF n = 0 THEN <<>> ELSE ConcatFiles(files, src, n - 1) \o files[src[n]].data

\* C1: whenever the existence probe of InstallRegistry or InstallRouter finds
\* the service, the invocation returns nil having made no call at all (no
\* service-account creation, policy read or write, certificate generation,
\* catFiles, delegate), and the probe step leaves cluster and files unchanged;
\* this holds for every invocation, first or repeated.
C1_ExistingServiceNoOp ==
  [][\A p \in Procs :
       /\ probe'[p] = NoErr =>
            pc'[p] = "done" /\ result'[p] = NoErr /\ calls'[p] = NoCalls
       /\ (probe[p] = Pending /\ probe'[p] = NoErr) => UNCHANGED <<cluster, fs>>]_vars

C1_Witness ==
  \E p, q \in Procs :
    /\ op[p] = "router" /\ runs[p] = MaxRuns /\ probe[p] = NoErr /\ pc[p] = "done"
    /\ op[q] = "registry" /\ probe[q] = NoErr /\ pc[q] = "done"

\* C2: the policy write of InstallRouter stores a list that contains every
\* identity of the list the invocation read, and the router identity.
C2_UpdateKeepsIdentities ==
  [][\A p \in Procs :
       (pc[p] = "rtrUpdateSCC" /\ pc'[p] = "rtrCreateCert") =>
         (Range(privilegedSCC[p]) \cup {RouterUser}) \subseteq Range(sccUsers')]_vars

C2_Witness ==
  \E p \in Procs :
    /\ pc[p] = "rtrCreateCert"
    /\ Range(sccUsers) = {"A", "B", RouterUser}

\* C3: a catFiles call with a missing source, whose destination could be
\* created, leaves the destination in place holding at most the bytes of the
\* sources before the missing one, and returns a non-nil error.
C3_MissingSourceFails ==
  (cat.called /\ ~cat.env.createFail) =>
    \A i \in 1..Len(cat.src) :
      ~cat.pre[cat.src[i]].exists =>
        /\ fs[RouterPem].exists
        /\ IsPrefix(fs[RouterPem].data, ConcatFiles(cat.pre, cat.src, i - 1))
        /\ cat.err # NoErr

\* C4: an I/O failure of the catFiles call of InstallRouter ends the
\* invocation with that error, and the delegate is not invoked.
C4_IOFailureAborts ==
  \A p \in Procs :
    ioErr[p] # NoErr =>
      pc[p] = "done" /\ result[p] = ioErr[p] /\ calls[p].delegate = 0

\* C5: no invocation makes any of its calls more than once; an invocation that
\* found the service absent and returned nil made exactly one service-account
\* creation, policy read, policy write, certificate generation and delegate
\* invocation (router), or exactly one delegate invocation (registry).
C5_ExactlyOnce ==
  \A p \in Procs :
    /\ \A c \in DOMAIN NoCalls : calls[p][c] <= 1
    /\ (pc[p] = "done" /\ result[p] = NoErr /\ probe[p] = ErrNotFound) =>
         IF op[p] = "router"
         THEN /\ calls[p].sa = 1 /\ calls[p].get = 1 /\ calls[p].update = 1
              /\ calls[p].cert = 1 /\ calls[p].delegate = 1
         ELSE calls[p] = [NoCalls EXCEPT !.delegate = 1]

C5_Witness ==
  \E p, q \in Procs :
    /\ op[p] = "router" /\ pc[p] = "done" /\ result[p] = NoErr
    /\ probe[p] = ErrNotFound /\ routerSvc
    /\ op[q] = "registry" /\ pc[q] = "done" /\ result[q] = NoErr
    /\ probe[q] = ErrNotFound /\ registrySvc

\* C6: the router identity occurs at most once in the stored list of the
\* privileged policy, whatever the list held at the start.
C6_NoDuplicateRouterUser == Count(RouterUser, sccUsers) <= 1

\* C7: an InstallRegistry whose probe failed other than by not-found returns
\* "error retrieving docker registry service" with the probe error as cause
\* and does not invoke the delegate; the delegate is reached only after a
\* not-found probe.
C7_RegistryProbeError ==
  \A p \in Procs :
    op[p] = "registry" =>
      /\ ProbeFailed(p) =>
           /\ pc[p] = "done"
           /\ result[p] = [msg |-> "error retrieving docker registry service",
                           cause |-> probe[p].msg]
           /\ calls[p].delegate = 0
      /\ (pc[p] = "regDelegate" \/ calls[p].delegate > 0) => probe[p] = ErrNotFound

C7_Witness ==
  \E p \in Procs :
    /\ op[p] = "registry" /\ probe[p] = ErrServer /\ pc[p] = "done"
    /\ result[p].cause = "ServerError"

\* Both processes are in InstallRouter, past a not-found probe and about to
\* create the service account, which does not exist yet.
Racing ==
  /\ ~routerSA /\ ~routerSvc
  /\ \A p \in Procs : pc[p] = "rtrCreateSA" /\ probe[p] = ErrNotFound

\* Both invocations wrote the privileged policy and the identity one of them
\* added is missing from the stored list.
LostGrant ==
  \E p, q \in Procs :
    p # q /\ Granted(p) /\ Granted(q) /\ RouterUser \notin Range(sccUsers)

C9_RouterProbeError ==
  \A p \in Procs :
    op[p] = "router" =>
      /\ ProbeFailed(p) =>
           pc[p] = "done" /\ result[p] # NoErr /\ calls[p] = NoCalls
      /\ (pc[p] \in RouterMid \cup {"rtrCreateSA"} \/ calls[p] # NoCalls) =>
           probe[p] = ErrNotFound

\* C10: nothing is rolled back (the service account stays, the stored list
\* keeps its identities); once the service account exists while the router
\* service is absent and no invocation is past the creation of the service
\* account, this stays so for ever; and an invocation that calls the creation
\* while the account exists returns "cannot create router service account"
\* without a policy read, a policy write or a delegate invocation.
Stuck ==
  /\ routerSA /\ ~routerSvc
  /\ \A p \in Procs : pc[p] \notin RouterMid

C10_NotRetryable ==
  [][/\ routerSA => routerSA'
     /\ Range(sccUsers) \subseteq Range(sccUsers')
     /\ Stuck => Stuck'
     /\ \A p \in Procs :
          (pc[p] = "rtrCreateSA" /\ routerSA /\ pc'[p] # "rtrCreateSA") =>
            /\ pc'[p] = "done"
            /\ result'[p].msg = "cannot create router service account"
            /\ calls'[p].get = 0 /\ calls'[p].update = 0 /\ calls'[p].delegate = 0]_vars

C10_Witness ==
  \E p, q \in Procs :
    /\ Stuck
    /\ op[q] = "router" /\ pc[q] = "done" /\ calls[q].sa = 1
    /\ result[q].msg \in {"cannot retrieve privileged SCC", "cannot update privileged SCC",
                          "cannot create router cert", "copy failed", "router command failed"}
    /\ op[p] = "router" /\ pc[p] = "done" /\ probe[p] = ErrNotFound
    /\ result[p] = NewErrorWithCause("cannot create router service account", ErrAlreadyExists)

====
